---- MODULE Spec2Model ----
(***************************************************************************)
(* A model of src/storm.py (class HTTPStorm): the shared statistics        *)
(* dictionary and its lock, the worker threads of the thread-based mode,   *)
(* the control loop and the tasks of the cooperative (asyncio) mode, the   *)
(* live statistics monitor, the orchestrator start_storm with its two      *)
(* branches (request-limited, duration-limited), and the final report.     *)
(*                                                                         *)
(* Time is a discrete clock `now`, in seconds since start_time.  A network *)
(* exchange takes an arbitrary time (the timeout handed to requests is per *)
(* socket operation), so an in-flight worker may return at any tick.  The  *)
(* orchestrator's sleeps and timed joins end exactly at their deadline,    *)
(* and the steps of a thread between two waits take no time.               *)
(*                                                                         *)
(* The method is GET or POST, as argparse admits (line 443); every         *)
(* exception of an attempt is raised before the locked block is entered.   *)
(* The operator's interrupt reaches the main thread while it waits (in     *)
(* sleep, in join, or in the event loop's selector).                       *)
(***************************************************************************)
EXTENDS Integers, FiniteSets, Sequences, TLC

VARIABLES
    use_async,   \* start_storm(use_async)
    requests,    \* self.requests: the request ceiling, 0 = none
    duration,    \* self.duration, seconds
    running,     \* self.running
    lock,        \* self.lock: "free", or who holds it
    stats,       \* self.stats
    opc,         \* where start_storm is
    jidx,        \* the thread the orchestrator is joining
    jstart,      \* when that join began
    cancelled,   \* KeyboardInterrupt was raised in start_storm
    stop_pc,     \* the stop_storm thread of the cooperative duration mode
    wpc,         \* where each worker_thread is
    wout,        \* the outcome a worker is recording
    apc,         \* where async_storm is
    queued,      \* tasks created, waiting for the semaphore
    inflight,    \* tasks holding a semaphore slot, awaiting the exchange
    semaphore,   \* asyncio.Semaphore(self.threads): its free slots
    mpc,         \* where stats_monitor is
    now,         \* seconds since start_time
    report,      \* what print_final_report has read
    issued,      \* history: attempts that entered the network exchange
    timedout,    \* history: attempts whose exchange exceeded the timeout
    method,      \* self.method
    payloads,    \* self.payloads
    random_delay, \* self.random_delay
    stealth,     \* self.stealth
    headers,     \* self.headers: the operator's custom headers
    rpc,         \* where the attempt followed in detail is
    req_headers, \* headers = self.get_random_headers()
    payload,     \* payload = self.get_random_payload()
    start_time,  \* start_time = time.time()
    request,     \* the request handed to the session
    sent_at,     \* history: when the network exchange began
    response_time, \* the sample appended to stats['response_times']
    bytes_sent   \* self.stats['bytes_sent']

vars == <<use_async, requests, duration, running, lock, stats, opc, jidx,
          jstart, cancelled, stop_pc, wpc, wout, apc, queued, inflight,
          semaphore, mpc, now, report, issued, timedout, method, payloads,
          random_delay, stealth, headers, rpc, req_headers, payload,
          start_time, request, sent_at, response_time, bytes_sent>>

\* the state of the attempt followed in detail
avars == <<method, payloads, random_delay, stealth, headers, rpc, req_headers,
           payload, start_time, request, sent_at, response_time, bytes_sent>>

----------------------------------------------------------------------------
\* Bounds of the model.
NumThreads == 2
MaxRequests == 2
MaxDuration == 1
MaxAttempts == 3
MaxTime == 7
MaxHistory == 1

\* Program constants.
JoinTimeout == 5
TaskBuffer == 20
SuccessBelow == 400

Workers == 1..NumThreads
StatusCodes == {200, 500}
ErrorKinds == {"ConnectionError", "TimeoutError"}

NoOutcome == [kind |-> "none", code |-> 0]
Outcomes ==
    {[kind |-> "response", code |-> c] : c \in StatusCodes}
        \cup {[kind |-> "timeout", code |-> 0], [kind |-> "error", code |-> 0]}

InitStats ==
    [total_requests |-> 0, successful |-> 0, failed |-> 0, timeouts |-> 0,
     status_codes |-> [c \in StatusCodes |-> 0],
     errors |-> [k \in ErrorKinds |-> 0],
     rps_history |-> 0]

----------------------------------------------------------------------------
\* The updates of self.stats.

\* faulty variant: the increment of total_requests is lost
CountAttempt_Lost(s) == s

\* self.stats['total_requests'] += 1, the first statement of each locked block
CountAttempt(s) == [s EXCEPT !.total_requests = @ + 1]

\* make_request, a response: successful or failed by the status code, and its bucket
RecordResponse(s, code) ==
    [s EXCEPT !.successful = IF code < SuccessBelow THEN @ + 1 ELSE @,
              !.failed = IF code < SuccessBelow THEN @ ELSE @ + 1,
              !.status_codes[code] = @ + 1]

\* faulty variant: a timeout is counted as a timeout but not as a failure
RecordTimeout_NoFailed(s) == [s EXCEPT !.timeouts = @ + 1]

\* make_request, except requests.exceptions.Timeout
RecordTimeout(s) == [s EXCEPT !.timeouts = @ + 1, !.failed = @ + 1]

\* faulty variant: a failure is counted but put in no error-kind bucket
RecordException_NoBucket(s, kind) == [s EXCEPT !.failed = @ + 1]

\* make_request and async_worker, except Exception: the error-kind bucket
RecordException(s, kind) == [s EXCEPT !.failed = @ + 1, !.errors[kind] = @ + 1]

\* what the second half of make_request's locked block does with an outcome
RecordOutcome(s, o) ==
    CASE o.kind = "response" -> RecordResponse(s, o.code)
      [] o.kind = "timeout" -> RecordTimeout(s)
      [] OTHER -> RecordException(s, "ConnectionError")

\* async_worker's locked block: there is one except clause, and a timeout
\* (asyncio.TimeoutError) is recorded by it under its class name
AsyncRecordOutcome(s, o) ==
    CASE o.kind = "response" -> RecordResponse(CountAttempt(s), o.code)
      [] o.kind = "timeout" -> RecordException(CountAttempt(s), "TimeoutError")
      [] OTHER -> RecordException(CountAttempt(s), "ConnectionError")

----------------------------------------------------------------------------
\* faulty variant: a ceiling of 1 is run as a duration-limited run
RequestLimited_OffByOne == requests > 1

\* if self.requests > 0: the request-limited branch of start_storm
RequestLimited == requests > 0

\* faulty variant: the stop check fires one attempt before the ceiling
CeilingReached_Early == requests > 0 /\ stats.total_requests + 1 >= requests

\* faulty variant: the stop check uses > where the code uses >=
CeilingReached_Late == requests > 0 /\ stats.total_requests > requests

\* self.requests > 0 and self.stats['total_requests'] >= self.requests
CeilingReached == requests > 0 /\ stats.total_requests >= requests

Started == opc \notin {"init", "done", "crashed"}

----------------------------------------------------------------------------
\* The pieces of one attempt: the header set, the payload, the request.

Methods == {"GET", "POST"}

\* a key that a header set does not carry
Absent == "<absent>"

\* base_headers' keys and the three stealth keys
HeaderKeys ==
    {"User-Agent", "Accept", "Accept-Language", "Accept-Encoding",
     "Connection", "Cache-Control", "X-Forwarded-For", "X-Real-IP", "DNT"}

\* the keys the operator's custom headers are drawn from
CustomKeys == {"User-Agent", "X-Forwarded-For", "X-Real-IP", "DNT"}

NoHeaders == [k \in HeaderKeys |-> Absent]

\* self.headers: any subset of CustomKeys, each with the operator's value
CustomHeaders ==
    {h \in [HeaderKeys -> {Absent, "operator"}] :
        \A k \in HeaderKeys \ CustomKeys : h[k] = Absent}

\* self.user_agents, and the addresses the four random.randint(1,255) give
UserAgents == {"agent-1", "agent-2"}
IpChoices == {"1.1.1.1", "255.255.255.255"}

\* dict.update: the second map's values replace the first's
Update(base, extra) ==
    [k \in HeaderKeys |-> IF extra[k] # Absent THEN extra[k] ELSE base[k]]

\* get_random_headers for one outcome of the draws: ua is the User-Agent
\* chosen; fwd, real and dnt are the stealth values set, Absent when the
\* draw of random.random() leaves the key alone
get_random_headers(ua, fwd, real, dnt) ==
    LET base_headers ==
            [k \in HeaderKeys |->
                CASE k = "User-Agent" -> ua
                  [] k = "Accept" -> "*/*"
                  [] k = "Accept-Language" -> "en-US,en;q=0.9"
                  [] k = "Accept-Encoding" -> "gzip, deflate, br"
                  [] k = "Connection" -> "keep-alive"
                  [] k = "Cache-Control" -> "no-cache"
                  [] OTHER -> Absent]
        custom == Update(base_headers, headers)
        extra == [k \in HeaderKeys |->
                    CASE k = "X-Forwarded-For" -> fwd
                      [] k = "X-Real-IP" -> real
                      [] k = "DNT" -> dnt
                      [] OTHER -> Absent]
    IN  IF stealth THEN Update(custom, extra) ELSE custom

\* the outcomes of the draws of get_random_headers
HeaderDraws ==
    [ua : UserAgents,
     fwd : IF stealth THEN IpChoices \cup {Absent} ELSE {Absent},
     real : IF stealth THEN IpChoices \cup {Absent} ELSE {Absent},
     dnt : IF stealth THEN {"1", Absent} ELSE {Absent}]

\* a payload is a string (a sequence of characters) or None; the lists
\* tried hold up to two payloads
PayloadTexts == {<<"a">>, <<"a", "b">>}
NoPayload == [present |-> FALSE, text |-> <<>>]

PayloadLists ==
    {<<>>} \cup {<<x>> : x \in PayloadTexts}
           \cup {<<x, y>> : x \in PayloadTexts, y \in PayloadTexts}

\* get_random_payload: None for an empty list, else any element
get_random_payload ==
    IF payloads = <<>> THEN {NoPayload}
    ELSE {[present |-> TRUE, text |-> payloads[i]] : i \in 1..Len(payloads)}

\* `if payload:`: None and the empty string are false
Truthy(p) == p.present /\ Len(p.text) > 0

\* data=payload if isinstance(payload, str) else json.dumps(payload)
PostData(p) ==
    IF p.present THEN p
    ELSE [present |-> TRUE, text |-> <<"n", "u", "l", "l">>]

NoRequest == [verb |-> "none", body |-> NoPayload, headers |-> NoHeaders]

\* session.get / session.post of make_request
ThreadRequest ==
    IF method = "GET"
    THEN [verb |-> "GET", body |-> NoPayload, headers |-> req_headers]
    ELSE [verb |-> "POST", body |-> PostData(payload), headers |-> req_headers]

\* session.get of async_worker
AsyncRequest == [verb |-> "GET", body |-> NoPayload, headers |-> req_headers]

Init ==
    /\ use_async \in BOOLEAN
    /\ requests \in 0..MaxRequests
    /\ duration \in 0..MaxDuration
    /\ running = TRUE
    /\ lock = "free"
    /\ stats = InitStats
    /\ opc = "init"
    /\ jidx = 1
    /\ jstart = 0
    /\ cancelled = FALSE
    /\ stop_pc = "none"
    /\ wpc = [i \in Workers |-> "idle"]
    /\ wout = [i \in Workers |-> NoOutcome]
    /\ apc = "idle"
    /\ queued = 0
    /\ inflight = 0
    /\ semaphore = 0
    /\ mpc = "idle"
    /\ now = 0
    /\ report = [total |-> -1, successful |-> -1, elapsed |-> -1]
    /\ issued = 0
    /\ timedout = 0
    /\ method = "GET"
    /\ payloads = <<>>
    /\ random_delay = FALSE
    /\ stealth = FALSE
    /\ headers = NoHeaders
    /\ rpc = "off"
    /\ req_headers = NoHeaders
    /\ payload = NoPayload
    /\ start_time = 0
    /\ request = NoRequest
    /\ sent_at = 0
    /\ response_time = -1
    /\ bytes_sent = 0

----------------------------------------------------------------------------
\* start_storm up to the point where it waits: the monitor and the workers
\* (or the event loop, and the stop thread of the duration mode) are started
StartStorm ==
    /\ opc = "init"
    /\ mpc' = "check"
    /\ IF use_async
       THEN /\ apc' = "loop"
            /\ opc' = "run_loop"
            /\ semaphore' = NumThreads
            /\ stop_pc' = IF RequestLimited THEN "none" ELSE "sleeping"
            /\ UNCHANGED wpc
       ELSE /\ wpc' = [i \in Workers |-> "loop"]
            /\ opc' = IF RequestLimited THEN "join" ELSE "sleep"
            /\ UNCHANGED <<apc, stop_pc, semaphore>>
    /\ UNCHANGED <<use_async, requests, duration, running, lock, stats, jidx,
                   jstart, cancelled, wout, queued, inflight, now, report,
                   issued, timedout>>
    /\ UNCHANGED avars

\* time.sleep(self.duration); self.running = False, then the first join
SleepDone ==
    /\ opc = "sleep"
    /\ now >= duration
    /\ running' = FALSE
    /\ opc' = "join"
    /\ jidx' = 1
    /\ jstart' = now
    /\ UNCHANGED <<use_async, requests, duration, lock, stats, cancelled,
                   stop_pc, wpc, wout, apc, queued, inflight, mpc, now, report,
                   issued, timedout>>
    /\ UNCHANGED semaphore
    /\ UNCHANGED avars

\* the join of thread jidx is over: the next join, or past the loop
\* (self.running = False at line 356 in the request-limited branch)
JoinNext ==
    IF jidx < NumThreads
    THEN /\ jidx' = jidx + 1
         /\ jstart' = now
         /\ UNCHANGED <<opc, running>>
    ELSE /\ opc' = "report"
         /\ running' = IF RequestLimited THEN FALSE ELSE running
         /\ UNCHANGED <<jidx, jstart>>

\* t.join() returns because the thread has ended
JoinReturn ==
    /\ opc = "join"
    /\ wpc[jidx] = "done"
    /\ JoinNext
    /\ UNCHANGED <<use_async, requests, duration, lock, stats, cancelled,
                   stop_pc, wpc, wout, apc, queued, inflight, mpc, now, report,
                   issued, timedout>>
    /\ UNCHANGED semaphore
    /\ UNCHANGED avars

\* t.join(timeout=5) returns because the timeout has passed
JoinTimedOut ==
    /\ opc = "join"
    /\ ~RequestLimited
    /\ wpc[jidx] # "done"
    /\ now >= jstart + JoinTimeout
    /\ JoinNext
    /\ UNCHANGED <<use_async, requests, duration, lock, stats, cancelled,
                   stop_pc, wpc, wout, apc, queued, inflight, mpc, now, report,
                   issued, timedout>>
    /\ UNCHANGED semaphore
    /\ UNCHANGED avars

\* loop.run_until_complete(self.async_storm()) returns
LoopReturn ==
    /\ opc = "run_loop"
    /\ apc = "stopped"
    /\ opc' = "report"
    /\ running' = IF RequestLimited THEN FALSE ELSE running
    /\ UNCHANGED <<use_async, requests, duration, lock, stats, jidx, jstart,
                   cancelled, stop_pc, wpc, wout, apc, queued, inflight, mpc,
                   now, report, issued, timedout>>
    /\ UNCHANGED semaphore
    /\ UNCHANGED avars

\* stop_storm: time.sleep(self.duration); self.running = False
StopStorm ==
    /\ stop_pc = "sleeping"
    /\ opc # "done"
    /\ now >= duration
    /\ stop_pc' = "done"
    /\ running' = FALSE
    /\ UNCHANGED <<use_async, requests, duration, lock, stats, opc, jidx,
                   jstart, cancelled, wpc, wout, apc, queued, inflight, mpc,
                   now, report, issued, timedout>>
    /\ UNCHANGED semaphore
    /\ UNCHANGED avars

\* except KeyboardInterrupt: self.running = False; the event loop, if any,
\* is left and its tasks make no further step
Interrupt ==
    /\ opc \in {"sleep", "join", "run_loop"}
    /\ cancelled' = TRUE
    /\ running' = FALSE
    /\ opc' = "report"
    /\ apc' = IF use_async THEN "stopped" ELSE apc
    /\ UNCHANGED <<use_async, requests, duration, lock, stats, jidx, jstart,
                   stop_pc, wpc, wout, queued, inflight, mpc, now, report,
                   issued, timedout>>
    /\ UNCHANGED semaphore
    /\ UNCHANGED avars

\* faulty variant: the report goes on to the ratios when nothing was counted
ReportReadTotal_NoEarlyReturn ==
    /\ opc = "report"
    /\ report' = [report EXCEPT !.total = stats.total_requests, !.elapsed = now]
    /\ opc' = "report_rate"
    /\ UNCHANGED <<use_async, requests, duration, running, lock, stats, jidx,
                   jstart, cancelled, stop_pc, wpc, wout, apc, queued,
                   inflight, mpc, now, issued, timedout>>
    /\ UNCHANGED semaphore
    /\ UNCHANGED avars

\* print_final_report: total = self.stats['total_requests'], the return when
\* it is 0, elapsed = time.time() - self.stats['start_time']
ReportReadTotal ==
    /\ opc = "report"
    /\ report' = [report EXCEPT !.total = stats.total_requests, !.elapsed = now]
    /\ opc' = IF stats.total_requests = 0 THEN "done" ELSE "report_rate"
    /\ UNCHANGED <<use_async, requests, duration, running, lock, stats, jidx,
                   jstart, cancelled, stop_pc, wpc, wout, apc, queued,
                   inflight, mpc, now, issued, timedout>>
    /\ UNCHANGED semaphore
    /\ UNCHANGED avars

\* print_final_report: success_rate = (self.stats['successful'] / total) * 100,
\* read without the lock
ReportReadSuccessful ==
    /\ opc = "report_rate"
    /\ report' = [report EXCEPT !.successful = stats.successful]
    /\ opc' = IF report.total = 0 THEN "crashed" ELSE "done"
    /\ UNCHANGED <<use_async, requests, duration, running, lock, stats, jidx,
                   jstart, cancelled, stop_pc, wpc, wout, apc, queued,
                   inflight, mpc, now, issued, timedout>>
    /\ UNCHANGED semaphore
    /\ UNCHANGED avars

----------------------------------------------------------------------------
\* faulty variant: the loop goes on at the ceiling instead of breaking
WorkerCheck_NoBreak(i) ==
    /\ Started
    /\ wpc[i] = "loop"
    /\ wpc' = [wpc EXCEPT ![i] = IF ~running THEN "done"
                                 ELSE IF CeilingReached THEN "loop"
                                 ELSE "call"]
    /\ UNCHANGED <<use_async, requests, duration, running, lock, stats, opc,
                   jidx, jstart, cancelled, stop_pc, wout, apc, queued,
                   inflight, mpc, now, report, issued, timedout>>
    /\ UNCHANGED semaphore
    /\ UNCHANGED avars

\* worker_thread: while self.running, and the break at the ceiling
WorkerCheck(i) ==
    /\ Started
    /\ wpc[i] = "loop"
    /\ wpc' = [wpc EXCEPT ![i] = IF ~running \/ CeilingReached
                                 THEN "done" ELSE "call"]
    /\ UNCHANGED <<use_async, requests, duration, running, lock, stats, opc,
                   jidx, jstart, cancelled, stop_pc, wout, apc, queued,
                   inflight, mpc, now, report, issued, timedout>>
    /\ UNCHANGED semaphore
    /\ UNCHANGED avars

\* make_request: if not self.running: return None; else the exchange begins
MakeRequest(i) ==
    /\ Started
    /\ wpc[i] = "call"
    /\ IF ~running
       THEN /\ wpc' = [wpc EXCEPT ![i] = "loop"]
            /\ UNCHANGED issued
       ELSE /\ issued < MaxAttempts
            /\ wpc' = [wpc EXCEPT ![i] = "inflight"]
            /\ issued' = issued + 1
    /\ UNCHANGED <<use_async, requests, duration, running, lock, stats, opc,
                   jidx, jstart, cancelled, stop_pc, wout, apc, queued,
                   inflight, mpc, now, report, timedout>>
    /\ UNCHANGED semaphore
    /\ UNCHANGED avars

\* make_request: the exchange ends with outcome o, the lock is taken and
\* total_requests is incremented
RecordBegin(i, o) ==
    /\ Started
    /\ wpc[i] = "inflight"
    /\ lock = "free"
    /\ lock' = "worker"
    /\ wpc' = [wpc EXCEPT ![i] = "rec"]
    /\ wout' = [wout EXCEPT ![i] = o]
    /\ stats' = CountAttempt(stats)
    /\ timedout' = IF o.kind = "timeout" THEN timedout + 1 ELSE timedout
    /\ UNCHANGED <<use_async, requests, duration, running, opc, jidx, jstart,
                   cancelled, stop_pc, apc, queued, inflight, mpc, now, report,
                   issued>>
    /\ UNCHANGED semaphore
    /\ UNCHANGED avars

\* faulty variant: a failed attempt ends the worker
RecordEnd_StopOnFailure(i) ==
    /\ Started
    /\ wpc[i] = "rec"
    /\ stats' = RecordOutcome(stats, wout[i])
    /\ lock' = "free"
    /\ wpc' = [wpc EXCEPT ![i] = IF wout[i].kind = "response"
                                 THEN "loop" ELSE "done"]
    /\ wout' = [wout EXCEPT ![i] = NoOutcome]
    /\ UNCHANGED <<use_async, requests, duration, running, opc, jidx, jstart,
                   cancelled, stop_pc, apc, queued, inflight, mpc, now, report,
                   issued, timedout>>
    /\ UNCHANGED semaphore
    /\ UNCHANGED avars

\* make_request: the rest of the locked block, and the lock is released
RecordEnd(i) ==
    /\ Started
    /\ wpc[i] = "rec"
    /\ stats' = RecordOutcome(stats, wout[i])
    /\ lock' = "free"
    /\ wpc' = [wpc EXCEPT ![i] = "loop"]
    /\ wout' = [wout EXCEPT ![i] = NoOutcome]
    /\ UNCHANGED <<use_async, requests, duration, running, opc, jidx, jstart,
                   cancelled, stop_pc, apc, queued, inflight, mpc, now, report,
                   issued, timedout>>
    /\ UNCHANGED semaphore
    /\ UNCHANGED avars

----------------------------------------------------------------------------
\* async_storm: one turn of the while loop; when it ends the session closes
AsyncLoop ==
    /\ apc = "loop"
    /\ IF ~running \/ CeilingReached
       THEN /\ apc' = "closing"
            /\ UNCHANGED queued
       ELSE /\ apc' = apc
            /\ queued' = IF /\ queued + inflight < NumThreads * TaskBuffer
                            /\ queued + issued < MaxAttempts
                         THEN queued + 1 ELSE queued
    /\ UNCHANGED <<use_async, requests, duration, running, lock, stats, opc,
                   jidx, jstart, cancelled, stop_pc, wpc, wout, inflight, mpc,
                   now, report, issued, timedout>>
    /\ UNCHANGED semaphore
    /\ UNCHANGED avars

\* faulty variant: the slot is released only when the request got a response
SemaphoreRelease_LeakOnFailure(sem, o) ==
    IF o.kind = "response" THEN sem + 1 ELSE sem

\* async_worker: leaving `async with semaphore`, on the normal path and on
\* the path through the except clause alike
SemaphoreRelease(sem, o) == sem + 1

\* async_worker: async with semaphore, and the exchange begins
AsyncAcquire ==
    /\ apc \in {"loop", "closing"}
    /\ queued > 0
    /\ semaphore > 0
    /\ semaphore' = semaphore - 1
    /\ queued' = queued - 1
    /\ inflight' = inflight + 1
    /\ issued' = issued + 1
    /\ UNCHANGED <<use_async, requests, duration, running, lock, stats, opc,
                   jidx, jstart, cancelled, stop_pc, wpc, wout, apc, mpc, now,
                   report, timedout>>
    /\ UNCHANGED avars

\* async_worker: the exchange ends with outcome o, the locked block runs
\* and the semaphore slot is released
AsyncComplete(o) ==
    /\ apc \in {"loop", "closing"}
    /\ inflight > 0
    /\ lock = "free"
    /\ inflight' = inflight - 1
    /\ semaphore' = SemaphoreRelease(semaphore, o)
    /\ stats' = AsyncRecordOutcome(stats, o)
    /\ timedout' = IF o.kind = "timeout" THEN timedout + 1 ELSE timedout
    /\ UNCHANGED <<use_async, requests, duration, running, lock, opc, jidx,
                   jstart, cancelled, stop_pc, wpc, wout, apc, queued, mpc,
                   now, report, issued>>
    /\ UNCHANGED avars

\* the event loop stops once async_storm has returned
AsyncStop ==
    /\ apc = "closing"
    /\ apc' = "stopped"
    /\ UNCHANGED <<use_async, requests, duration, running, lock, stats, opc,
                   jidx, jstart, cancelled, stop_pc, wpc, wout, queued,
                   inflight, mpc, now, report, issued, timedout>>
    /\ UNCHANGED semaphore
    /\ UNCHANGED avars

----------------------------------------------------------------------------
\* stats_monitor: while self.running, then time.sleep(5)
MonitorCheck ==
    /\ Started
    /\ mpc = "check"
    /\ mpc' = IF running THEN "sleep" ELSE "done"
    /\ UNCHANGED <<use_async, requests, duration, running, lock, stats, opc,
                   jidx, jstart, cancelled, stop_pc, wpc, wout, apc, queued,
                   inflight, now, report, issued, timedout>>
    /\ UNCHANGED semaphore
    /\ UNCHANGED avars

\* stats_monitor: with self.lock
MonitorAcquire ==
    /\ Started
    /\ mpc = "sleep"
    /\ lock = "free"
    /\ stats.rps_history < MaxHistory
    /\ lock' = "monitor"
    /\ mpc' = "locked"
    /\ UNCHANGED <<use_async, requests, duration, running, stats, opc, jidx,
                   jstart, cancelled, stop_pc, wpc, wout, apc, queued,
                   inflight, now, report, issued, timedout>>
    /\ UNCHANGED semaphore
    /\ UNCHANGED avars

\* stats_monitor, the locked block: nothing when no request is counted yet;
\* else current_rps is appended to rps_history and the snapshot is printed
MonitorSnapshot(s) ==
    IF s.total_requests = 0 THEN s ELSE [s EXCEPT !.rps_history = @ + 1]

\* stats_monitor: the locked block, then the lock is released
MonitorReport ==
    /\ Started
    /\ mpc = "locked"
    /\ stats' = MonitorSnapshot(stats)
    /\ lock' = "free"
    /\ mpc' = "check"
    /\ UNCHANGED <<use_async, requests, duration, running, opc, jidx,
                   jstart, cancelled, stop_pc, wpc, wout, apc, queued,
                   inflight, now, report, issued, timedout>>
    /\ UNCHANGED semaphore
    /\ UNCHANGED avars

----------------------------------------------------------------------------
\* A step that is due now, which the clock does not pass: a deadline of
\* start_storm or stop_storm that has come, the end of the control loop, and
\* every step of a thread that waits for nothing (only the exchange, the
\* sleeps and the joins take time).
Due ==
    \/ \E i \in Workers : wpc[i] \in {"loop", "rec"}
    \/ \E i \in Workers : wpc[i] = "call" /\ (~running \/ issued < MaxAttempts)
    \/ mpc = "locked"
    \/ opc \in {"init", "report", "report_rate", "done", "crashed"}
    \/ opc = "sleep" /\ now >= duration
    \/ opc = "join" /\ wpc[jidx] = "done"
    \/ opc = "join" /\ ~RequestLimited /\ now >= jstart + JoinTimeout
    \/ stop_pc = "sleeping" /\ now >= duration
    \/ apc = "loop" /\ (~running \/ CeilingReached)
    \/ apc \in {"closing", "stopped"} /\ opc = "run_loop"

\* The clock is followed as far as a deadline of the run can lie; a
\* request-limited run has none, and is followed past its duration limit.
Horizon == IF RequestLimited THEN duration + 1 ELSE MaxTime

Tick ==
    /\ ~Due
    /\ now < Horizon
    /\ now' = now + 1
    /\ UNCHANGED <<use_async, requests, duration, running, lock, stats, opc,
                   jidx, jstart, cancelled, stop_pc, wpc, wout, apc, queued,
                   inflight, mpc, report, issued, timedout>>
    /\ UNCHANGED semaphore
    /\ UNCHANGED avars

Next ==
    \/ StartStorm
    \/ SleepDone
    \/ JoinReturn
    \/ JoinTimedOut
    \/ LoopReturn
    \/ StopStorm
    \/ Interrupt
    \/ ReportReadTotal
    \/ ReportReadSuccessful
    \/ \E i \in Workers : WorkerCheck(i)
    \/ \E i \in Workers : MakeRequest(i)
    \/ \E i \in Workers, o \in Outcomes : RecordBegin(i, o)
    \/ \E i \in Workers : RecordEnd(i)
    \/ AsyncLoop
    \/ \E o \in Outcomes : AsyncComplete(o)
    \/ AsyncAcquire
    \/ AsyncStop
    \/ MonitorCheck
    \/ MonitorAcquire
    \/ MonitorReport
    \/ Tick

Spec == Init /\ [][Next]_vars

----------------------------------------------------------------------------
\* The thread-mode run under fair scheduling.  Every thread that can step
\* eventually does, every network exchange eventually returns and the lock
\* is granted to whoever keeps asking for it; the operator's interrupt and
\* the monitor's wake-ups are not forced.  A duration-limited run has the
\* longest duration; a request-limited run, whose duration is not used, is
\* followed where MaxAttempts lets the workers reach the ceiling.

FairInit ==
    /\ Init
    /\ ~use_async
    /\ IF requests = 0
       THEN duration = MaxDuration
       ELSE duration = 0 /\ requests + (NumThreads - 1) <= MaxAttempts

FairNext ==
    \/ StartStorm
    \/ SleepDone
    \/ JoinReturn
    \/ JoinTimedOut
    \/ Interrupt
    \/ ReportReadTotal
    \/ ReportReadSuccessful
    \/ \E i \in Workers : WorkerCheck(i)
    \/ \E i \in Workers : MakeRequest(i)
    \/ \E i \in Workers, o \in Outcomes : RecordBegin(i, o)
    \/ \E i \in Workers : RecordEnd(i)
    \/ MonitorCheck
    \/ MonitorAcquire
    \/ MonitorReport
    \/ Tick

OrchestratorStep ==
    \/ StartStorm
    \/ SleepDone
    \/ JoinReturn
    \/ JoinTimedOut
    \/ ReportReadTotal
    \/ ReportReadSuccessful

WorkerStep(i) ==
    \/ WorkerCheck(i)
    \/ MakeRequest(i)
    \/ RecordEnd(i)

Fairness ==
    /\ WF_vars(OrchestratorStep)
    /\ \A i \in Workers : WF_vars(WorkerStep(i))
    /\ \A i \in Workers : SF_vars(\E o \in Outcomes : RecordBegin(i, o))
    /\ WF_vars(MonitorReport)
    /\ WF_vars(Tick)

FairSpec == FairInit /\ [][FairNext]_vars /\ Fairness

----------------------------------------------------------------------------
\* One attempt followed in detail, from the header set to the recording, in
\* thread mode (make_request) and in cooperative mode (async_worker).  The
\* clock counts the units of the random delay.

MaxDelay == 2
MaxExchange == 2

\* what the attempt leaves alone
svars == <<requests, duration, running, lock, stats, opc, jidx, jstart,
           cancelled, stop_pc, wpc, wout, apc, queued, inflight, semaphore,
           mpc, report, issued, timedout>>

AttemptInit ==
    /\ use_async \in BOOLEAN
    /\ requests = 0
    /\ duration = 0
    /\ running = TRUE
    /\ lock = "free"
    /\ stats = InitStats
    /\ opc = "init"
    /\ jidx = 1
    /\ jstart = 0
    /\ cancelled = FALSE
    /\ stop_pc = "none"
    /\ wpc = [i \in Workers |-> "idle"]
    /\ wout = [i \in Workers |-> NoOutcome]
    /\ apc = "idle"
    /\ queued = 0
    /\ inflight = 0
    /\ semaphore = 0
    /\ mpc = "idle"
    /\ now = 0
    /\ report = [total |-> -1, successful |-> -1, elapsed |-> -1]
    /\ issued = 0
    /\ timedout = 0
    /\ method \in Methods
    /\ payloads \in PayloadLists
    /\ random_delay \in BOOLEAN
    /\ stealth \in BOOLEAN
    /\ headers \in CustomHeaders
    /\ rpc = "start"
    /\ req_headers = NoHeaders
    /\ payload = NoPayload
    /\ start_time = 0
    /\ request = NoRequest
    /\ sent_at = 0
    /\ response_time = -1
    /\ bytes_sent = 0

\* make_request: headers and payload are chosen whatever the method is;
\* async_worker: only the headers
AttemptBuild ==
    /\ rpc = "start"
    /\ \E d \in HeaderDraws :
          req_headers' = get_random_headers(d.ua, d.fwd, d.real, d.dnt)
    /\ IF use_async
       THEN payload' = NoPayload
       ELSE payload' \in get_random_payload
    /\ rpc' = "built"
    /\ UNCHANGED <<use_async, now, method, payloads, random_delay, stealth,
                   headers, start_time, request, sent_at, response_time,
                   bytes_sent>>
    /\ UNCHANGED svars

\* the random delay: time.sleep before the stamp in make_request,
\* asyncio.sleep after the stamp in async_worker; skipped when disabled
AttemptSleep ==
    /\ rpc = IF use_async THEN "stamped" ELSE "built"
    /\ \E d \in IF random_delay THEN 1..MaxDelay ELSE {0} : now' = now + d
    /\ rpc' = IF use_async THEN "ready" ELSE "delayed"
    /\ UNCHANGED <<use_async, method, payloads, random_delay, stealth,
                   headers, req_headers, payload, start_time, request,
                   sent_at, response_time, bytes_sent>>
    /\ UNCHANGED svars

\* start_time = time.time()
AttemptStamp ==
    /\ rpc = IF use_async THEN "built" ELSE "delayed"
    /\ start_time' = now
    /\ rpc' = IF use_async THEN "stamped" ELSE "ready"
    /\ UNCHANGED <<use_async, now, method, payloads, random_delay, stealth,
                   headers, req_headers, payload, request, sent_at,
                   response_time, bytes_sent>>
    /\ UNCHANGED svars

\* the request is handed to the session and the network exchange begins
AttemptSend ==
    /\ rpc = "ready"
    /\ request' = IF use_async THEN AsyncRequest ELSE ThreadRequest
    /\ sent_at' = now
    /\ rpc' = "exchange"
    /\ UNCHANGED <<use_async, now, method, payloads, random_delay, stealth,
                   headers, req_headers, payload, start_time, response_time,
                   bytes_sent>>
    /\ UNCHANGED svars

\* the exchange ends after e units with outcome o and the attempt is
\* recorded: a response gives a latency sample and, in make_request, the
\* length of a payload that is not empty is added to bytes_sent
AttemptRecord(e, o) ==
    /\ rpc = "exchange"
    /\ now' = now + e
    /\ IF o.kind = "response"
       THEN /\ response_time' = now' - start_time
            /\ bytes_sent' = IF ~use_async /\ Truthy(payload)
                             THEN bytes_sent + Len(payload.text)
                             ELSE bytes_sent
       ELSE UNCHANGED <<response_time, bytes_sent>>
    /\ rpc' = "done"
    /\ UNCHANGED <<use_async, method, payloads, random_delay, stealth,
                   headers, req_headers, payload, start_time, request,
                   sent_at>>
    /\ UNCHANGED svars

AttemptNext ==
    \/ AttemptBuild
    \/ AttemptSleep
    \/ AttemptStamp
    \/ AttemptSend
    \/ \E e \in 0..MaxExchange, o \in Outcomes : AttemptRecord(e, o)

AttemptSpec == AttemptInit /\ [][AttemptNext]_vars

----------------------------------------------------------------------------
\* Helpers of the properties.

RECURSIVE SumOver(_, _)
SumOver(f, S) ==
    IF S = {} THEN 0
    ELSE LET x == CHOOSE y \in S : TRUE IN f[x] + SumOver(f, S \ {x})

\* no locked block of a worker, a task or the monitor is being executed
NoRecordingInProgress == lock = "free"

\* every attempt that entered the network exchange has been recorded
AllAttemptsFinished ==
    /\ \A i \in Workers : wpc[i] \notin {"inflight", "rec"}
    /\ inflight = 0

ReportProduced == report.total # -1

----------------------------------------------------------------------------
\* C1: whenever no recording is in progress, successful + failed equals
\* total_requests, in both dispatch modes.
C1_Partition ==
    NoRecordingInProgress =>
        stats.successful + stats.failed = stats.total_requests

\* C1 witness: thread mode, a success, an HTTP error response and a timeout
\* have been recorded and the lock is free.
C1_Witness ==
    /\ ~use_async
    /\ NoRecordingInProgress
    /\ stats.status_codes[200] >= 1
    /\ stats.status_codes[500] >= 1
    /\ stats.timeouts >= 1

\* C2: once every issued attempt has finished, total_requests equals the
\* number of attempts that entered the network exchange.
C2_NoLostNoDouble ==
    AllAttemptsFinished => stats.total_requests = issued

\* C2 witness: the run is over, three attempts were issued by interleaved
\* workers and all of them have been recorded.
C2_Witness ==
    /\ opc = "done"
    /\ AllAttemptsFinished
    /\ issued = 3
    /\ stats.total_requests = 3

\* C3 (as claimed): in both modes every attempt that exceeded the timeout
\* has incremented timeouts and failed, and not successful.
C3_TimeoutCounted ==
    NoRecordingInProgress =>
        /\ stats.timeouts = timedout
        /\ stats.failed >= timedout
        /\ stats.successful + timedout <= stats.total_requests

\* C4 (as claimed): the values a reporter uses are those of one consistent
\* statistics state: the live monitor inside its locked block, and the final
\* report with the total and the successful count it has read.
C4_AtomicReads ==
    /\ lock = "monitor" =>
          /\ stats.successful + stats.failed = stats.total_requests
          /\ stats.successful <= stats.total_requests
    /\ (opc = "done" /\ report.successful # -1) =>
          report.successful <= report.total

\* C5: whenever no recording is in progress, the status-code buckets, the
\* timeouts and the error-kind buckets add up to total_requests.
C5_Buckets ==
    NoRecordingInProgress =>
        /\ SumOver(stats.status_codes, StatusCodes) + stats.timeouts
              + SumOver(stats.errors, ErrorKinds) = stats.total_requests
        /\ SumOver(stats.status_codes, StatusCodes) <= stats.total_requests

\* C5 witness: a response, a timeout and another failure have each been
\* recorded in its bucket.
C5_Witness ==
    /\ NoRecordingInProgress
    /\ stats.status_codes[200] >= 1
    /\ stats.timeouts >= 1
    /\ stats.errors["ConnectionError"] >= 1

\* C6: in a request-limited run that is not cancelled, the final report is
\* produced with total_requests at or above the ceiling.
C6_NotFewer ==
    (requests > 0 /\ ~cancelled /\ ReportProduced) =>
        /\ report.total >= requests
        /\ stats.total_requests >= requests

\* C6 witness: a cooperative run with ceiling 2 has produced its final report
\* uncancelled.
C6_Witness ==
    /\ use_async
    /\ requests = 2
    /\ ~cancelled
    /\ opc = "done"
    /\ report.total >= 2

\* C7: thread mode, ceiling C > 0, N workers: total_requests never exceeds
\* C + (N - 1).
C7_Overshoot ==
    (~use_async /\ requests > 0) =>
        stats.total_requests <= requests + (NumThreads - 1)

\* C7 witness: every worker passed the stop check below the ceiling and
\* recorded, so the overshoot is exactly N - 1.
C7_Witness ==
    /\ ~use_async
    /\ requests > 0
    /\ NoRecordingInProgress
    /\ stats.total_requests = requests + (NumThreads - 1)

\* C8: with a nonzero ceiling the stop flag is set, and a worker or the
\* control loop ends, only when the ceiling is reached or the operator has
\* cancelled; the elapsed time plays no part.
C8_DurationIgnored ==
    [][requests > 0 =>
          /\ (running /\ ~running') =>
                (cancelled' \/ stats.total_requests >= requests)
          /\ \A i \in Workers :
                (wpc[i] # "done" /\ wpc'[i] = "done") =>
                    (cancelled \/ stats.total_requests >= requests)
          /\ (apc = "loop" /\ apc' # "loop") =>
                (cancelled' \/ stats.total_requests >= requests)]_vars

\* C8 witness: a request-limited run whose duration limit has passed is
\* still running, with a worker in flight.
C8_Witness ==
    /\ requests > 0
    /\ duration > 0
    /\ now > duration
    /\ running
    /\ ~cancelled
    /\ \E i \in Workers : wpc[i] = "inflight"

\* C9 (as claimed): with duration 0 and ceiling 0 the stop flag is set only
\* by the operator's cancellation.
C9_ZeroDurationUnlimited ==
    (duration = 0 /\ requests = 0 /\ ~cancelled) => running

\* C10 (as claimed): in a duration-limited run that is not cancelled the
\* final report is produced no earlier than D and no later than D plus one
\* join period.
C10_ReportWindow ==
    (requests = 0 /\ duration > 0 /\ ~cancelled /\ ReportProduced) =>
        /\ report.elapsed >= duration
        /\ report.elapsed <= duration + JoinTimeout

\* C11 (as claimed): once the stop flag is set no new attempt begins (a
\* worker records at most the outcome it has in flight) and no task is
\* launched or leaves the queue to start a request.
C11_StopObserved ==
    [][~running => (issued' = issued /\ queued' <= queued)]_vars

\* C12: a final report that finds total_requests = 0 ends there: the run is
\* over normally and no ratio has been evaluated.
C12_EmptyReport ==
    /\ opc # "crashed"
    /\ report.total = 0 => (opc = "done" /\ report.successful = -1)

\* C12 witness: a run interrupted while its first attempts are in flight has
\* produced the empty report.
C12_Witness ==
    /\ cancelled
    /\ opc = "done"
    /\ report.total = 0
    /\ \E i \in Workers : wpc[i] = "inflight"

\* C13: in cooperative mode at most N tasks hold a slot, and held slots plus
\* free slots equal N.
C13_Slots ==
    (use_async /\ apc # "idle") =>
        /\ inflight <= NumThreads
        /\ semaphore >= 0
        /\ inflight + semaphore = NumThreads

\* C13 witness: after a failed request released its slot, all N slots are
\* held again.
C13_Witness ==
    /\ use_async
    /\ stats.failed >= 1
    /\ inflight = NumThreads
    /\ semaphore = 0

\* C16: a worker that has recorded an outcome is back in its loop; a worker
\* or the control loop ends only on the stop flag or at the ceiling; the
\* orchestrator is never brought down.
C16_FailureIsLocal ==
    [][/\ \A i \in Workers :
            (wpc[i] = "rec" /\ wpc'[i] # "rec") => wpc'[i] = "loop"
       /\ \A i \in Workers :
            (wpc[i] # "done" /\ wpc'[i] = "done") =>
                (wpc[i] = "loop" /\ (~running \/ CeilingReached))
       /\ (apc = "loop" /\ apc' # "loop") => (~running' \/ CeilingReached)
       /\ opc' # "crashed"]_vars

\* C16 witness: a timeout and another failure have been recorded, the run
\* goes on and a worker has a further attempt in flight.
C16_Witness ==
    /\ running
    /\ stats.timeouts >= 1
    /\ stats.errors["ConnectionError"] >= 1
    /\ \E i \in Workers : wpc[i] = "inflight"

\* C17 (as claimed): a step of the live monitor leaves self.stats unchanged.
C17_ReadOnly ==
    [][mpc' # mpc => stats' = stats]_vars

\* C18 (as claimed): cooperative mode, ceiling C > 0, concurrency N:
\* total_requests never exceeds C + (N - 1).
C18_AsyncOvershoot ==
    (use_async /\ requests > 0) =>
        stats.total_requests <= requests + (NumThreads - 1)

\* C14 (as claimed): in a run whose method is GET bytes_sent stays 0,
\* whatever the payload list contains.
C14_GetSendsNoBytes ==
    method = "GET" => bytes_sent = 0

\* C15 (as claimed): the header set built for a request carries the
\* operator's value for every key of the custom headers.
C15_CustomWins ==
    rpc \notin {"off", "start"} =>
        \A k \in HeaderKeys :
            headers[k] # Absent => req_headers[k] = headers[k]

\* C20 (as claimed): with the random delay enabled, the latency sample of an
\* attempt is the time from the beginning of the network exchange to its
\* end, the delay excluded.
C20_ExcludesDelay ==
    (random_delay /\ rpc = "done" /\ response_time # -1) =>
        response_time = now - sent_at

\* C19: under fair scheduling, with every exchange returning, the
\* orchestrator eventually produces the final report; in thread mode, when
\* the run was request-limited and not interrupted, every worker has left
\* its loop by then.
C19_Terminates ==
    <>(/\ opc = "done"
       /\ (RequestLimited /\ ~cancelled) =>
              \A i \in Workers : wpc[i] = "done")

\* C19 witness: a request-limited thread-mode run has reported after its
\* workers reached the ceiling and left their loops.
C19_Witness ==
    /\ ~use_async
    /\ RequestLimited
    /\ ~cancelled
    /\ opc = "done"
    /\ stats.total_requests >= requests
    /\ \A i \in Workers : wpc[i] = "done"

\* C21 (as claimed): when the method is POST and the payload list is not
\* empty, the request handed to the session is a POST whose body is an
\* element of the payload list, in thread mode and in cooperative mode.
C21_MethodGoverns ==
    (method = "POST" /\ payloads # <<>> /\ rpc \in {"exchange", "done"}) =>
        /\ request.verb = "POST"
        /\ request.body.present
        /\ \E i \in 1..Len(payloads) : request.body.text = payloads[i]

====
